---- MODULE Spec2Model ----
(***************************************************************************)
(* Task-Flow (src/src/App.jsx): the scheduling core (checkConflict,        *)
(* getFreeSlots), the reminder poll of App and the handlers that change    *)
(* the task collection, against the Supabase table behind them.            *)
(*                                                                         *)
(* Instants are milliseconds (Date.getTime()).  The application clock      *)
(* `now` is 0 when App mounts and is observed at the instants the 30 s     *)
(* interval callback runs; user operations happen before or after the      *)
(* callback of an instant.  A handler that awaits a persistence call is    *)
(* two actions: the part up to the await, which includes the table's       *)
(* handling of the request, and the continuation that applies the reply.   *)
(* Replies are applied in any order.                                       *)
(***************************************************************************)
EXTENDS Integers, Sequences, FiniteSets, TLC

VARIABLES
    now,            \* new Date().getTime() relative to the mount of App
    polled,         \* the interval callback due at `now` has run
    tasks,          \* App's `tasks` state: a sequence of task records
    db,             \* the rows of the Supabase table 'tasks'
    fetch,          \* fetchTasks of the mount effect: its progress and reply
    inflight,       \* replies of insert/update/delete calls not yet applied
    nextId,         \* the next value generateId() returns
    notified,       \* per task id: how often the sink was called (saturates)
    sink,           \* positions the last poll notified, if no operation followed it
    prevSink,       \* `sink` as the last poll found it
    displayed,      \* ids the last poll constructed a Notification for
    ops,            \* saves, toggles and deletes made so far
    tz,             \* the local time zone's offset from UTC, in ms
    call,           \* the last call of a pure function: arguments and result
    toasts,         \* the toasts the last step raised
    chat            \* AIChat: the send in progress and the last reply

vars == <<now, polled, tasks, db, fetch, inflight, nextId, notified, sink,
          prevSink, displayed, ops, tz, call, toasts, chat>>

(***************************************************************************)
(* Program constants                                                       *)
(***************************************************************************)
PollInterval == 30000
MsPerMinute == 60000
ReminderWindowMins == 15
MsPerHour == 3600000
MsPerDay == 86400000

(***************************************************************************)
(* Bounds of the model                                                     *)
(***************************************************************************)
MaxPolls == 3           \* interval callbacks observed
LivePolls == 33         \* interval callbacks observed with the timer running
MaxOps == 2             \* saves, toggles and deletes the user makes
MaxTasks == 2           \* task ids ever created
MaxInflight == 2        \* replies awaited at the same time
MaxNotified == 2        \* the per-task delivery count saturates here
MaxInstant == 3         \* checkConflict is called on instants 0..MaxInstant
ConflictLen == 2        \* tasks in a collection passed to checkConflict
SlotsLen == 2           \* tasks in a collection passed to getFreeSlots

TaskIds == 1..MaxTasks

\* excludeId = null, and the id of no task
NoId == 0

Task(id, s, e, c, ca, r, rs) ==
    [id |-> id, startTime |-> s, endTime |-> e, completed |-> c,
     completedAt |-> ca, reminder |-> r, reminderSent |-> rs]

\* What the Add Task form can hold when it is saved: start, end, reminder.
\* The first starts exactly 15 minutes after the second interval callback,
\* the others at the instant of the third callback.
Drafts ==
    { [startTime |-> 960000, endTime |-> 1020000, reminder |-> TRUE],
      [startTime |-> 90000, endTime |-> 150000, reminder |-> TRUE],
      [startTime |-> 90000, endTime |-> 150000, reminder |-> FALSE] }

Range(s) == { s[i] : i \in 1..Len(s) }

Ids(s) == { s[i].id : i \in 1..Len(s) }

\* Array.prototype.filter with the predicate "the id is not `id`"
RECURSIVE FilterOutId(_, _)
FilterOutId(s, id) ==
    IF s = <<>> THEN <<>>
    ELSE IF Head(s).id = id THEN FilterOutId(Tail(s), id)
    ELSE <<Head(s)>> \o FilterOutId(Tail(s), id)

\* s without its i-th element
RemoveAt(s, i) == SubSeq(s, 1, i - 1) \o SubSeq(s, i + 1, Len(s))

(***************************************************************************)
(* checkConflict(tasks, newStart, newEnd, excludeId = null)                *)
(***************************************************************************)
\* checkConflict without the filter on excludeId
checkConflictNoExclude(ts, newStart, newEnd, excludeId) ==
    \E i \in 1..Len(ts) :
        /\ newStart < ts[i].endTime
        /\ newEnd > ts[i].startTime

\* checkConflict with the end of a task counted as covered (<=)
checkConflictClosedEnd(ts, newStart, newEnd, excludeId) ==
    \E i \in 1..Len(ts) :
        /\ ts[i].id # excludeId
        /\ newStart <= ts[i].endTime
        /\ newEnd > ts[i].startTime

\* checkConflict testing only whether the new start falls into a task
checkConflictStartInside(ts, newStart, newEnd, excludeId) ==
    \E i \in 1..Len(ts) :
        /\ ts[i].id # excludeId
        /\ newStart < ts[i].endTime
        /\ newStart >= ts[i].startTime

checkConflict(ts, newStart, newEnd, excludeId) ==
    \E i \in 1..Len(ts) :
        /\ ts[i].id # excludeId
        /\ newStart < ts[i].endTime
        /\ newEnd > ts[i].startTime

(***************************************************************************)
(* Date, in the time zone `tz` of the browser                              *)
(***************************************************************************)
\* date.toISOString().split("T")[0]: the UTC calendar day, as a day number
ISODate(t) == t \div MsPerDay

\* date.getHours(), date.getMinutes(): local time
getHours(t) == ((t + tz) % MsPerDay) \div MsPerHour
getMinutes(t) == ((t + tz) % MsPerHour) \div MsPerMinute

minutesSinceMidnight(t) == getHours(t) * 60 + getMinutes(t)

(***************************************************************************)
(* getFreeSlots(tasks, dateStr, dayStart = 8, dayEnd = 22)                 *)
(***************************************************************************)
DefaultDayStart == 8
DefaultDayEnd == 22

\* tasks.filter(t => t.startTime.toISOString().split("T")[0] === dateStr)
RECURSIVE FilterDay(_, _)
FilterDay(ts, dateStr) ==
    IF ts = <<>> THEN <<>>
    ELSE IF ISODate(Head(ts).startTime) = dateStr
         THEN <<Head(ts)>> \o FilterDay(Tail(ts), dateStr)
         ELSE FilterDay(Tail(ts), dateStr)

\* t put into the sorted sequence s behind every task that does not start
\* later than t
RECURSIVE InsertByStart(_, _)
InsertByStart(s, t) ==
    IF s = <<>> THEN <<t>>
    ELSE IF Head(s).startTime <= t.startTime
         THEN <<Head(s)>> \o InsertByStart(Tail(s), t)
         ELSE <<t>> \o s

\* .sort((a, b) => a.startTime - b.startTime): ascending and stable
RECURSIVE SortByStart(_)
SortByStart(ts) ==
    IF ts = <<>> THEN <<>>
    ELSE InsertByStart(SortByStart(SubSeq(ts, 1, Len(ts) - 1)), ts[Len(ts)])

Max(a, b) == IF a >= b THEN a ELSE b

\* the for loop over dayTasks: the cursor and the slots after it
RECURSIVE Sweep(_, _, _)
Sweep(dayTasks, cursor, free) ==
    IF dayTasks = <<>> THEN [cursor |-> cursor, free |-> free]
    ELSE LET tStart == minutesSinceMidnight(Head(dayTasks).startTime)
             tEnd == minutesSinceMidnight(Head(dayTasks).endTime)
         IN  Sweep(Tail(dayTasks), Max(cursor, tEnd),
                   IF tStart > cursor
                   THEN Append(free, [start |-> cursor, end |-> tStart])
                   ELSE free)

getFreeSlots(ts, dateStr, dayStart, dayEnd) ==
    LET dayTasks == SortByStart(FilterDay(ts, dateStr))
        swept == Sweep(dayTasks, dayStart * 60, <<>>)
    IN  IF swept.cursor < dayEnd * 60
        THEN Append(swept.free, [start |-> swept.cursor, end |-> dayEnd * 60])
        ELSE swept.free

\* The arrays of a call of checkConflict: `tasks`, which is passed in, and
\* the array filter makes of it; some() reads that one.
checkConflictArrays(ts, excludeId) ==
    [tasks |-> ts, filtered |-> FilterOutId(ts, excludeId)]

\* the arrays of getFreeSlots had sort been called on `tasks`, ahead of filter
getFreeSlotsArraysSortFirst(ts, dateStr) ==
    LET sorted == [tasks |-> SortByStart(ts)]
    IN  [tasks |-> sorted.tasks, dayTasks |-> FilterDay(sorted.tasks, dateStr)]

\* The arrays of a call of getFreeSlots: `tasks`, which is passed in, and
\* dayTasks, the array filter makes of it, which sort then orders in place.
getFreeSlotsArrays(ts, dateStr) ==
    LET made == [tasks |-> ts, dayTasks |-> FilterDay(ts, dateStr)]
    IN  [made EXCEPT !.dayTasks = SortByStart(@)]

(***************************************************************************)
(* Strings: a string is the sequence of its characters                     *)
(***************************************************************************)
\* F of the value of e, with e evaluated once, as a const declaration does
With(e, F(_)) == CHOOSE r \in { F(v) : v \in {e} } : TRUE

\* String.prototype.toLowerCase and toUpperCase, letter by letter
LowerOf ==
    [A |-> "a", B |-> "b", C |-> "c", D |-> "d", E |-> "e", F |-> "f",
     G |-> "g", H |-> "h", I |-> "i", J |-> "j", K |-> "k", L |-> "l",
     M |-> "m", N |-> "n", O |-> "o", P |-> "p", Q |-> "q", R |-> "r",
     S |-> "s", T |-> "t", U |-> "u", V |-> "v", W |-> "w", X |-> "x",
     Y |-> "y", Z |-> "z"]

UpperOf ==
    [a |-> "A", b |-> "B", c |-> "C", d |-> "D", e |-> "E", f |-> "F",
     g |-> "G", h |-> "H", i |-> "I", j |-> "J", k |-> "K", l |-> "L",
     m |-> "M", n |-> "N", o |-> "O", p |-> "P", q |-> "Q", r |-> "R",
     s |-> "S", t |-> "T", u |-> "U", v |-> "V", w |-> "W", x |-> "X",
     y |-> "Y", z |-> "Z"]

toLowerCase(s) ==
    [i \in 1..Len(s) |-> IF s[i] \in DOMAIN LowerOf THEN LowerOf[s[i]] ELSE s[i]]

\* \d and its value
Digits == <<"0", "1", "2", "3", "4", "5", "6", "7", "8", "9">>
IsDigit(c) == \E d \in 1..10 : Digits[d] = c
DigitValue(c) == (CHOOSE d \in 1..10 : Digits[d] = c) - 1

\* the character of s at position i is a digit (false beyond the end)
DigitAt(s, i) == i >= 1 /\ i <= Len(s) /\ IsDigit(s[i])

\* parseInt of the digits of s at positions i..j
RECURSIVE parseInt(_, _, _)
parseInt(s, i, j) ==
    IF j < i THEN 0 ELSE parseInt(s, i, j - 1) * 10 + DigitValue(s[j])

\* the literal w stands in s at position i
LitAt(s, i, w) ==
    /\ i + Len(w) - 1 <= Len(s)
    /\ \A k \in 1..Len(w) : s[i + k - 1] = w[k]

\* String.prototype.includes
includes(s, w) == \E i \in 1..Len(s) : LitAt(s, i, w)

\* the position behind the run of characters of s from i on that satisfy
\* the class: \s* (spaces) and \d+ (digits), both greedy
RECURSIVE SkipSpaces(_, _)
SkipSpaces(s, i) ==
    IF i <= Len(s) /\ s[i] = " " THEN SkipSpaces(s, i + 1) ELSE i

RECURSIVE SkipDigits(_, _)
SkipDigits(s, i) == IF DigitAt(s, i) THEN SkipDigits(s, i + 1) ELSE i

\* the first position from i on that holds a digit; Len(s) + 1 if none
RECURSIVE NextDigit(_, _)
NextDigit(s, i) ==
    IF i > Len(s) \/ IsDigit(s[i]) THEN i ELSE NextDigit(s, i + 1)

(***************************************************************************)
(* parseTaskFromNL(message, tasks, selectedDate): the extraction           *)
(***************************************************************************)
\* the length of the first alternative of alts, in their order, that stands
\* in s at position i; 0 if none does
AltLen(s, i, alts) ==
    LET hits == { k \in 1..Len(alts) : LitAt(s, i, alts[k]) }
    IN  IF hits = {} THEN 0
        ELSE Len(alts[CHOOSE k \in hits : \A j \in hits : k <= j])

\* am|pm
Markers ==
    << <<"a", "m">>,
       <<"p", "m">> >>

\* hour|hr|minute|min
Units ==
    << <<"h", "o", "u", "r">>,
       <<"h", "r">>,
       <<"m", "i", "n", "u", "t", "e">>,
       <<"m", "i", "n">> >>

\* a match of the time pattern whose marker am or pm is matched but left
\* out of the hour
TimeMatchAtNoMarker(s, i) ==
    LET hEnd == IF DigitAt(s, i + 1) THEN i + 1 ELSE i
        hasMin == /\ hEnd + 1 <= Len(s)
                  /\ s[hEnd + 1] = ":"
                  /\ DigitAt(s, hEnd + 2)
                  /\ DigitAt(s, hEnd + 3)
        q == SkipSpaces(s, IF hasMin THEN hEnd + 4 ELSE hEnd + 1)
    IN  [hour |-> parseInt(s, i, hEnd),
         min |-> IF hasMin THEN parseInt(s, hEnd + 2, hEnd + 3) ELSE 0,
         next |-> IF AltLen(s, q, Markers) = 0 THEN q ELSE q + 2]

\* a match of the time pattern whose marker pm adds 12 to every hour
TimeMatchAtPmAdds12(s, i) ==
    LET hEnd == IF DigitAt(s, i + 1) THEN i + 1 ELSE i
        hasMin == /\ hEnd + 1 <= Len(s)
                  /\ s[hEnd + 1] = ":"
                  /\ DigitAt(s, hEnd + 2)
                  /\ DigitAt(s, hEnd + 3)
        q == SkipSpaces(s, IF hasMin THEN hEnd + 4 ELSE hEnd + 1)
        ampm == IF LitAt(s, q, Markers[1]) THEN "am"
                ELSE IF LitAt(s, q, Markers[2]) THEN "pm"
                ELSE "none"
        m1 == parseInt(s, i, hEnd)
    IN  [hour |-> IF ampm = "pm" THEN m1 + 12
                  ELSE IF ampm = "am" /\ m1 = 12 THEN 0
                  ELSE m1,
         min |-> IF hasMin THEN parseInt(s, hEnd + 2, hEnd + 3) ELSE 0,
         next |-> IF ampm = "none" THEN q ELSE q + 2]

\* one match of /(\d{1,2})(?::(\d{2}))?\s*(am|pm)?/ that begins at the digit
\* at position i of s: hour and min as the loop body leaves them, and the
\* position behind the match (lastIndex)
TimeMatchAt(s, i) ==
    LET hEnd == IF DigitAt(s, i + 1) THEN i + 1 ELSE i
        hasMin == /\ hEnd + 1 <= Len(s)
                  /\ s[hEnd + 1] = ":"
                  /\ DigitAt(s, hEnd + 2)
                  /\ DigitAt(s, hEnd + 3)
        q == SkipSpaces(s, IF hasMin THEN hEnd + 4 ELSE hEnd + 1)
        ampm == IF LitAt(s, q, Markers[1]) THEN "am"
                ELSE IF LitAt(s, q, Markers[2]) THEN "pm"
                ELSE "none"
        m1 == parseInt(s, i, hEnd)
    IN  [hour |-> IF ampm = "pm" /\ m1 # 12 THEN m1 + 12
                  ELSE IF ampm = "am" /\ m1 = 12 THEN 0
                  ELSE m1,
         min |-> IF hasMin THEN parseInt(s, hEnd + 2, hEnd + 3) ELSE 0,
         next |-> IF ampm = "none" THEN q ELSE q + 2]

\* the while loop over timeRegex.exec(lower): the matches from position
\* `from` on, left to right
RECURSIVE times(_, _)
times(s, from) ==
    LET i == NextDigit(s, from)
    IN  IF i > Len(s) THEN <<>>
        ELSE With(TimeMatchAt(s, i),
                  LAMBDA m : <<[hour |-> m.hour, min |-> m.min]>>
                                \o times(s, m.next))

Tomorrow ==
    <<"t", "o", "m", "o", "r", "r", "o", "w">>

NextWeek ==
    <<"n", "e", "x", "t", " ", "w", "e", "e", "k">>

\* the days targetDate lies behind selectedDate
DateShift(lower) ==
    IF includes(lower, Tomorrow) THEN 1
    ELSE IF includes(lower, NextWeek) THEN 7
    ELSE 0

\* /(\d+)\s*(hour|hr|minute|min)/ tried at the digit at position i
DurMatchAt(s, i) ==
    LET j == SkipDigits(s, i)
        q == SkipSpaces(s, j)
        n == AltLen(s, q, Units)
    IN  [ok |-> n > 0, n |-> parseInt(s, i, j - 1),
         unit |-> IF n > 0 THEN s[q] ELSE ""]

\* durationMins: the leftmost match of the duration pattern, 60 without one
durationMins(lower) ==
    LET at == { i \in 1..Len(lower) :
                    DigitAt(lower, i) /\ DurMatchAt(lower, i).ok }
    IN  IF at = {} THEN 60
        ELSE LET durMatch ==
                     DurMatchAt(lower, CHOOSE i \in at : \A j \in at : i <= j)
             IN  IF durMatch.unit = "h" THEN durMatch.n * 60 ELSE durMatch.n

\* schedule|add|create|set up|book|remind me to
CommandVerbs ==
    << <<"s", "c", "h", "e", "d", "u", "l", "e">>,
       <<"a", "d", "d">>,
       <<"c", "r", "e", "a", "t", "e">>,
       <<"s", "e", "t", " ", "u", "p">>,
       <<"b", "o", "o", "k">>,
       <<"r", "e", "m", "i", "n", "d", " ", "m", "e", " ", "t", "o">> >>

\* tomorrow|today|next week
DateWords ==
    << <<"t", "o", "m", "o", "r", "r", "o", "w">>,
       <<"t", "o", "d", "a", "y">>,
       <<"n", "e", "x", "t", " ", "w", "e", "e", "k">> >>

AtSpace == <<"a", "t", " ">>
ForSpace == <<"f", "o", "r", " ">>

\* the length of the match, at position i of s, of the pattern of one of the
\* four replace calls of the title extraction; 0 without a match
MatchLen(kind, s, i) ==
    IF kind = "verb" THEN AltLen(s, i, CommandVerbs)
    ELSE IF kind = "date" THEN AltLen(s, i, DateWords)
    ELSE IF kind = "at"
    THEN \* /at \d{1,2}(?::\d{2})?\s*(?:am|pm)?/
         IF LitAt(s, i, AtSpace) /\ DigitAt(s, i + 3)
         THEN TimeMatchAt(s, i + 3).next - i
         ELSE 0
    ELSE \* /for \d+ (?:hour|hr|minute|min)s?/
         IF LitAt(s, i, ForSpace) /\ DigitAt(s, i + 4)
         THEN LET j == SkipDigits(s, i + 4)
                  n == IF j <= Len(s) /\ s[j] = " "
                       THEN AltLen(s, j + 1, Units) ELSE 0
                  e == j + 1 + n
              IN  IF n = 0 THEN 0
                  ELSE IF e <= Len(s) /\ s[e] = "s" THEN e + 1 - i
                  ELSE e - i
         ELSE 0

\* String.prototype.replace(/.../gi, ""): s from position i on without the
\* matches of the pattern; `low` is s in lower case (flag i)
RECURSIVE StripFrom(_, _, _, _)
StripFrom(s, low, i, kind) ==
    IF i > Len(s) THEN <<>>
    ELSE With(MatchLen(kind, low, i),
              LAMBDA n : IF n > 0 THEN StripFrom(s, low, i + n, kind)
                         ELSE <<s[i]>> \o StripFrom(s, low, i + 1, kind))

Strip(s, kind) ==
    With(toLowerCase(s), LAMBDA low : StripFrom(s, low, 1, kind))

\* String.prototype.trim
trim(s) ==
    LET ink == { i \in 1..Len(s) : s[i] # " " }
    IN  IF ink = {} THEN <<>>
        ELSE SubSeq(s, CHOOSE i \in ink : \A j \in ink : i <= j,
                       CHOOSE i \in ink : \A j \in ink : i >= j)

NewTaskTitle == <<"N", "e", "w", " ", "T", "a", "s", "k">>

\* title.charAt(0).toUpperCase() + title.slice(1)
Capitalize(s) ==
    [i \in 1..Len(s) |->
        IF i = 1 /\ s[i] \in DOMAIN UpperOf THEN UpperOf[s[i]] ELSE s[i]]

\* the title: the four replace calls, trim, the default and the capital
TitleOf(message) ==
    With(Strip(message, "verb"), LAMBDA t1 :
    With(Strip(t1, "date"), LAMBDA t2 :
    With(Strip(t2, "at"), LAMBDA t3 :
    With(Strip(t3, "for"), LAMBDA t4 :
    With(trim(t4), LAMBDA stripped :
        Capitalize(IF stripped = <<>> THEN NewTaskTitle ELSE stripped))))))

\* the keyword sets of the category detection
WorkWords ==
    << <<"m", "e", "e", "t", "i", "n", "g">>,
       <<"c", "a", "l", "l">>,
       <<"s", "t", "a", "n", "d", "u", "p">>,
       <<"s", "y", "n", "c">>,
       <<"r", "e", "v", "i", "e", "w">>,
       <<"c", "l", "i", "e", "n", "t">> >>

HealthWords ==
    << <<"g", "y", "m">>,
       <<"e", "x", "e", "r", "c", "i", "s", "e">>,
       <<"w", "o", "r", "k", "o", "u", "t">>,
       <<"r", "u", "n">>,
       <<"y", "o", "g", "a">>,
       <<"h", "e", "a", "l", "t", "h">>,
       <<"d", "o", "c", "t", "o", "r">> >>

PersonalWords ==
    << <<"l", "u", "n", "c", "h">>,
       <<"d", "i", "n", "n", "e", "r">>,
       <<"b", "r", "e", "a", "k", "f", "a", "s", "t">>,
       <<"c", "o", "f", "f", "e", "e">>,
       <<"b", "i", "r", "t", "h", "d", "a", "y">>,
       <<"p", "a", "r", "t", "y">> >>

\* /w1|w2|.../i.test(title)
TestAny(title, words) ==
    \E low \in {toLowerCase(title)} :
        \E k \in 1..Len(words) : includes(low, words[k])

\* category detection: three if statements in a row, without else, each
\* overwriting what the earlier ones assigned
CategoryOf(title) ==
    LET c1 == IF TestAny(title, WorkWords) THEN "work" ELSE "general"
        c2 == IF TestAny(title, HealthWords) THEN "health" ELSE c1
    IN  IF TestAny(title, PersonalWords) THEN "personal" ELSE c2

(***************************************************************************)
(* parseTaskFromNL(message, tasks, selectedDate): the resolution           *)
(***************************************************************************)
\* what the first half of parseTaskFromNL extracts from the message
Extract(message) ==
    With(toLowerCase(message), LAMBDA lower :
    With(TitleOf(message), LAMBDA title :
        [times |-> times(lower, 1),
         shift |-> DateShift(lower),
         durationMins |-> durationMins(lower),
         title |-> title,
         category |-> CategoryOf(title)]))

\* What the user types into the AI chat: an optional command verb, words
\* of a title, a date word, a time phrase and a duration phrase, in this
\* order, with one space between them.
VerbPhrases ==
    { <<>>,
      <<"S", "c", "h", "e", "d", "u", "l", "e">> }

TitlePhrases ==
    { <<>>,
      <<"t", "e", "a", "m", " ", "s", "y", "n", "c">>,
      <<"l", "u", "n", "c", "h", " ", "m", "e", "e", "t", "i", "n", "g">>,
      <<"g", "y", "m", " ", "l", "u", "n", "c", "h">>,
      <<"y", "o", "g", "a", " ", "c", "a", "l", "l">>,
      <<"w", "a", "l", "k">> }

DatePhrases ==
    { <<>>,
      <<"t", "o", "m", "o", "r", "r", "o", "w">>,
      <<"n", "e", "x", "t", " ", "w", "e", "e", "k">> }

TimePhrases ==
    { <<>>,
      <<"a", "t", " ", "2", " ", "P", "M">>,
      <<"a", "t", " ", "9">>,
      <<"a", "t", " ", "1", "2", " ", "a", "m">>,
      <<"a", "t", " ", "1", "2", ":", "3", "0", " ", "p", "m">>,
      <<"a", "t", " ", "2", "5">>,
      <<"f", "r", "o", "m", " ", "2", " ", "p", "m", " ", "t", "o", " ", "4", " ", "p", "m">> }

DurationPhrases ==
    { <<>>,
      <<"f", "o", "r", " ", "1", " ", "h", "o", "u", "r">>,
      <<"f", "o", "r", " ", "2", " ", "h", "o", "u", "r", "s">>,
      <<"f", "o", "r", " ", "0", " ", "m", "i", "n", "u", "t", "e", "s">>,
      <<"f", "o", "r", " ", "9", "0", " ", "m", "i", "n">> }

\* the non-empty parts, with one space between them
RECURSIVE Join(_)
Join(parts) ==
    IF parts = <<>> THEN <<>>
    ELSE LET rest == Join(Tail(parts))
         IN  IF Head(parts) = <<>> THEN rest
             ELSE IF rest = <<>> THEN Head(parts)
             ELSE Head(parts) \o <<" ">> \o rest

Utterances ==
    { Join(<<v, t, d, h, n>>) :
        v \in VerbPhrases, t \in TitlePhrases, d \in DatePhrases,
        h \in TimePhrases, n \in DurationPhrases }

\* Extract of every utterance, evaluated once
Extracted == [message \in Utterances |-> Extract(message)]

\* the instant at which the local calendar day of t begins (daylight saving
\* time is not modelled: every local day has 24 hours)
LocalMidnight(t) == ((t + tz) \div MsPerDay) * MsPerDay - tz

\* date.setHours(hour, min, 0, 0): values beyond 23 and 59 carry over
setHours(t, hour, min) ==
    LocalMidnight(t) + hour * MsPerHour + min * MsPerMinute

\* minutesToTime(minutes): the hour and minute fields of "HH:MM"
minutesToTime(minutes) == [h |-> minutes \div 60, m |-> minutes % 60]

\* freeSlots.filter(s => s.end - s.start >= durationMins)
RECURSIVE LongEnough(_, _)
LongEnough(slots, dur) ==
    IF slots = <<>> THEN <<>>
    ELSE IF Head(slots).end - Head(slots).start >= dur
         THEN <<Head(slots)>> \o LongEnough(Tail(slots), dur)
         ELSE LongEnough(Tail(slots), dur)

Min(a, b) == IF a <= b THEN a ELSE b

\* .slice(0, 3).map(s => minutesToTime(s.start) - minutesToTime(min(...)))
Suggestions(freeSlots, dur) ==
    LET fit == LongEnough(freeSlots, dur)
        first == SubSeq(fit, 1, Min(3, Len(fit)))
    IN  [k \in 1..Len(first) |->
            [start |-> minutesToTime(first[k].start),
             end |-> minutesToTime(Min(first[k].end, first[k].start + dur))]]

\* the `task` of a result that carries none
NoDraft == [id |-> NoId]

\* colors[category]
Colors == [work |-> "#4A90D9", health |-> "#5BB97B", personal |-> "#7C5CBF",
           general |-> "#94A3B8"]

\* the value parseTaskFromNL resolves to; id is what generateId() returns.
\* message: which of the three messages; suggestions: the ranges it lists
parseTaskFromNL(message, ts, selectedDate, id) ==
    LET x == Extracted[message]
        targetDate == selectedDate + x.shift * MsPerDay
        startTime == setHours(targetDate, x.times[1].hour, x.times[1].min)
        endTime == startTime + x.durationMins * MsPerMinute
        dateStr == ISODate(targetDate)
        hasConflict == checkConflict(ts, startTime, endTime, NoId)
        freeSlots == getFreeSlots(ts, dateStr, DefaultDayStart, DefaultDayEnd)
    IN  IF Len(x.times) = 0
        THEN [success |-> FALSE, conflict |-> FALSE, message |-> "no-time",
              task |-> NoDraft, suggestions |-> <<>>]
        ELSE IF hasConflict
        THEN [success |-> FALSE, conflict |-> TRUE, message |-> "conflict",
              task |-> NoDraft,
              suggestions |-> Suggestions(freeSlots, x.durationMins)]
        ELSE [success |-> TRUE, conflict |-> FALSE, message |-> "added",
              task |-> [id |-> id, title |-> x.title,
                        startTime |-> startTime, endTime |-> endTime,
                        completed |-> FALSE, category |-> x.category,
                        priority |-> "medium", color |-> Colors[x.category],
                        reminder |-> TRUE, reminderSent |-> FALSE],
              suggestions |-> <<>>]

\* The Date objects of a call: selectedDate, which is passed in, and
\* targetDate, which new Date(selectedDate) makes and setDate moves.
parseTaskFromNLDates(message, selectedDate) ==
    LET made == [selectedDate |-> selectedDate, targetDate |-> selectedDate]
    IN  [made EXCEPT !.targetDate = @ + Extracted[message].shift * MsPerDay]

\* existingTasks after a call: it is handed to checkConflict when the
\* message holds a time, and to getFreeSlots when that finds a conflict
parseTaskFromNLTasks(message, ts, selectedDate, hasConflict) ==
    LET dates == parseTaskFromNLDates(message, selectedDate)
        checked == checkConflictArrays(ts, NoId).tasks
    IN  IF Len(Extracted[message].times) = 0 THEN ts
        ELSE IF hasConflict
        THEN getFreeSlotsArrays(checked, ISODate(dates.targetDate)).tasks
        ELSE checked

(***************************************************************************)
(* The reminder poll: the updater the interval callback hands to setTasks  *)
(***************************************************************************)
\* the window with its upper end open: minsUntil < 15
InReminderWindowOpenAt15(msUntil) ==
    msUntil > 0 /\ msUntil < ReminderWindowMins * MsPerMinute

\* the window compared with msUntil itself, the division by 60000 left out
InReminderWindowInMs(msUntil) ==
    msUntil > 0 /\ msUntil <= ReminderWindowMins

\* minsUntil > 0 && minsUntil <= 15, with minsUntil = msUntil / 60000 (a
\* real division: both comparisons are exact when scaled by 60000)
InReminderWindow(msUntil) ==
    msUntil > 0 /\ msUntil <= ReminderWindowMins * MsPerMinute

\* the map callback takes the notifying branch for `task` at instant t
ShouldFire(task, t) ==
    /\ ~(task.completed \/ task.reminderSent \/ ~task.reminder)
    /\ InReminderWindow(task.startTime - t)

\* positions of prev whose task is notified by a poll at instant t
FiredAt(prev, t) == { i \in 1..Len(prev) : ShouldFire(prev[i], t) }

\* the updater with its ternary swapped, `changed ? prev : updated`
PollUpdaterSwapped(prev, t) == prev

\* the updater marking every pending task, in the window or not
PollUpdaterMarkAll(prev, t) ==
    [i \in 1..Len(prev) |->
        IF ~(prev[i].completed \/ prev[i].reminderSent \/ ~prev[i].reminder)
        THEN [prev[i] EXCEPT !.reminderSent = TRUE]
        ELSE prev[i]]

\* the value of the updater: `changed ? updated : prev`
PollUpdater(prev, t) ==
    [i \in 1..Len(prev) |->
        IF ShouldFire(prev[i], t)
        THEN [prev[i] EXCEPT !.reminderSent = TRUE]
        ELSE prev[i]]

\* addToast(title, message, type): the toast raised.  Titles are written
\* without their emoji; the text of a message is abridged to what tells
\* the toasts of the program apart.
Toast(title, message, type) == [title |-> title, message |-> message, type |-> type]

\* the toast of every catch block, and of a fetch that failed
ErrorToast == Toast("Error", "Supabase", "error")

\* the toasts of the interval callback, one for each task it notifies
StartingSoon(fired) ==
    [k \in 1..Cardinality(fired) |-> Toast("Starting Soon", "starts at", "reminder")]

\* AIChat between two sends, nothing said yet
NoChat == [st |-> "idle", message |-> <<>>, tasks |-> <<>>, id |-> 0,
           said |-> "none"]

\* sendNotification(task) and the "Starting Soon" toast, counted per task id
Deliver(count, prev, fired) ==
    [id \in TaskIds |->
        LET n == count[id] + Cardinality({ i \in fired : prev[i].id = id })
        IN  IF n > MaxNotified THEN MaxNotified ELSE n]

\* Notification.permission, which the browser and its user decide
Permissions == {"default", "granted", "denied"}

\* sendNotification(task) for the tasks at the positions `fired`: the ids a
\* Notification is constructed for.  Without the permission it does nothing.
sendNotification(permission, prev, fired) ==
    IF permission = "granted" THEN { prev[i].id : i \in fired } ELSE {}

\* the callback marking a task only when its Notification was constructed
PollMarkIfDelivered ==
    /\ ~polled
    /\ polled' = TRUE
    /\ \E permission \in Permissions :
        /\ displayed' = sendNotification(permission, tasks, FiredAt(tasks, now))
        /\ tasks' = IF permission = "granted" THEN PollUpdater(tasks, now)
                    ELSE tasks
    /\ sink' = FiredAt(tasks, now)
    /\ prevSink' = sink
    /\ notified' = Deliver(notified, tasks, FiredAt(tasks, now))
    /\ toasts' = StartingSoon(FiredAt(tasks, now))
    /\ UNCHANGED <<now, db, fetch, inflight, nextId, ops, tz, call, chat>>

\* the interval callback; Notification.permission is read in sendNotification
Poll ==
    /\ ~polled
    /\ polled' = TRUE
    /\ tasks' = PollUpdater(tasks, now)
    /\ \E permission \in Permissions :
        displayed' = sendNotification(permission, tasks, FiredAt(tasks, now))
    /\ sink' = FiredAt(tasks, now)
    /\ prevSink' = sink
    /\ notified' = Deliver(notified, tasks, FiredAt(tasks, now))
    /\ toasts' = StartingSoon(FiredAt(tasks, now))
    /\ UNCHANGED <<now, db, fetch, inflight, nextId, ops, tz, call, chat>>

\* 30 s pass; the callback of the instant reached is due
Advance(maxPolls) ==
    /\ polled
    /\ now < maxPolls * PollInterval
    /\ now' = now + PollInterval
    /\ polled' = FALSE
    /\ toasts' = <<>>
    /\ UNCHANGED <<tasks, db, fetch, inflight, nextId, notified, sink,
                   prevSink, displayed, ops, tz, call, chat>>

(***************************************************************************)
(* fetchTasks (mount effect)                                               *)
(***************************************************************************)
\* select('*').order('startTime'): the rows in ascending startTime; rows
\* with equal startTime come in any order
OrderedByStart(rows) ==
    { s \in [1..Cardinality(rows) -> rows] :
        /\ \A i, j \in DOMAIN s : i # j => s[i] # s[j]
        /\ \A i, j \in DOMAIN s : i < j => s[i].startTime <= s[j].startTime }

FetchServer ==
    /\ fetch.st = "pending"
    /\ \E ok \in BOOLEAN :
        fetch' = [st |-> "replied", ok |-> ok, rows |-> IF ok THEN db ELSE {}]
    /\ toasts' = <<>>
    /\ sink' = {}
    /\ prevSink' = {}
    /\ displayed' = {}
    /\ UNCHANGED <<now, polled, tasks, db, inflight, nextId, notified,
                   ops, tz, call, chat>>

FetchApply ==
    /\ fetch.st = "replied"
    /\ fetch' = [st |-> "done", ok |-> fetch.ok, rows |-> {}]
    /\ IF fetch.ok
       THEN /\ \E s \in OrderedByStart(fetch.rows) : tasks' = s
            /\ toasts' = <<>>
       ELSE /\ tasks' = tasks
            /\ toasts' = <<ErrorToast>>
    /\ sink' = {}
    /\ prevSink' = {}
    /\ displayed' = {}
    /\ UNCHANGED <<now, polled, db, inflight, nextId, notified, ops, tz,
                   call, chat>>

(***************************************************************************)
(* The handlers of App that await a persistence call                       *)
(***************************************************************************)
\* the `data` of a reply that carries none
NoTask == Task(NoId, 0, 0, FALSE, FALSE, FALSE, FALSE)

\* A reply without error.  A reply with an error makes the handler raise
\* its error toast and nothing else (catch), so a failed call is over, as
\* far as the collection goes, when it is made: it leaves no reply behind.
Reply(op, id, data) == [op |-> op, id |-> id, data |-> data]

\* AddTaskModal.handleSave, then handleAddTask up to its await.  Save is
\* disabled while the form's interval conflicts with the collection.
SaveTask(d) ==
    /\ ops < MaxOps
    /\ ops' = ops + 1
    /\ nextId <= MaxTasks
    /\ Len(inflight) < MaxInflight
    /\ d.startTime < d.endTime
    /\ ~checkConflict(tasks, d.startTime, d.endTime, NoId)
    /\ LET row == Task(nextId, d.startTime, d.endTime, FALSE, FALSE,
                       d.reminder, FALSE)
       IN  \/ /\ db' = db \cup {row}
              /\ inflight' = Append(inflight, Reply("insert", nextId, row))
              /\ toasts' = <<>>
           \/ /\ UNCHANGED <<db, inflight>>
              /\ toasts' = <<ErrorToast>>
    /\ nextId' = nextId + 1
    /\ sink' = {}
    /\ prevSink' = {}
    /\ displayed' = {}
    /\ UNCHANGED <<now, polled, tasks, fetch, notified, tz, call, chat>>

\* tasks.find(t => t.id === taskId)
Find(ts, id) == ts[CHOOSE i \in 1..Len(ts) :
                    ts[i].id = id /\ \A j \in 1..(i - 1) : ts[j].id # id]

\* the update writing `completed` alone, completedAt left as it was
UpdatedRowCompletedOnly(row, completed) ==
    [row EXCEPT !.completed = completed]

\* update({completed, completedAt}).eq('id', id).select().single()
UpdatedRow(row, completed) ==
    [row EXCEPT !.completed = completed, !.completedAt = completed]

\* handleToggleComplete up to its await; single() is an error when the
\* table holds no row of that id
ToggleComplete(id) ==
    /\ ops < MaxOps
    /\ ops' = ops + 1
    /\ id \in Ids(tasks)
    /\ Len(inflight) < MaxInflight
    /\ LET want == ~Find(tasks, id).completed
       IN  \/ \E row \in { r \in db : r.id = id } :
                /\ db' = (db \ {row}) \cup {UpdatedRow(row, want)}
                /\ inflight' = Append(inflight,
                        Reply("update", id, UpdatedRow(row, want)))
                /\ toasts' = <<>>
           \/ /\ UNCHANGED <<db, inflight>>
              /\ toasts' = <<ErrorToast>>
    /\ sink' = {}
    /\ prevSink' = {}
    /\ displayed' = {}
    /\ UNCHANGED <<now, polled, tasks, fetch, nextId, notified, tz, call, chat>>

\* handleDeleteTask removing the task from the collection ahead of its
\* persistence call, and leaving it removed when the call fails
DeleteTaskOptimistic(id) ==
    /\ ops < MaxOps
    /\ ops' = ops + 1
    /\ id \in Ids(tasks)
    /\ Len(inflight) < MaxInflight
    /\ tasks' = FilterOutId(tasks, id)
    /\ \/ /\ db' = { r \in db : r.id # id }
          /\ inflight' = Append(inflight, Reply("delete", id, NoTask))
          /\ toasts' = <<>>
       \/ /\ UNCHANGED <<db, inflight>>
          /\ toasts' = <<ErrorToast>>
    /\ sink' = {}
    /\ prevSink' = {}
    /\ displayed' = {}
    /\ UNCHANGED <<now, polled, fetch, nextId, notified, tz, call, chat>>

\* handleDeleteTask up to its await
DeleteTask(id) ==
    /\ ops < MaxOps
    /\ ops' = ops + 1
    /\ id \in Ids(tasks)
    /\ Len(inflight) < MaxInflight
    /\ \/ /\ db' = { r \in db : r.id # id }
          /\ inflight' = Append(inflight, Reply("delete", id, NoTask))
          /\ toasts' = <<>>
       \/ /\ UNCHANGED <<db, inflight>>
          /\ toasts' = <<ErrorToast>>
    /\ sink' = {}
    /\ prevSink' = {}
    /\ displayed' = {}
    /\ UNCHANGED <<now, polled, tasks, fetch, nextId, notified, tz, call, chat>>

\* the setTasks updater each handler runs with the reply it awaited
ApplyToTasks(prev, r) ==
    IF r.op = "insert" THEN Append(prev, r.data)
    ELSE IF r.op = "update"
         THEN [i \in 1..Len(prev) |->
                  IF prev[i].id = r.id THEN r.data ELSE prev[i]]
    ELSE FilterOutId(prev, r.id)

\* the toast a handler raises after the setTasks of its continuation
ToastOf(r) ==
    IF r.op = "insert" THEN <<Toast("Task Added", "added to Supabase", "success")>>
    ELSE IF r.op = "delete"
         THEN <<Toast("Task Deleted", "Removed from Supabase", "info")>>
    ELSE <<>>

\* the continuation of a handler after its await
ApplyReply(k) ==
    /\ k \in 1..Len(inflight)
    /\ tasks' = ApplyToTasks(tasks, inflight[k])
    /\ toasts' = ToastOf(inflight[k])
    /\ inflight' = RemoveAt(inflight, k)
    /\ sink' = {}
    /\ prevSink' = {}
    /\ displayed' = {}
    /\ UNCHANGED <<now, polled, db, fetch, nextId, notified, ops, tz, call, chat>>

(***************************************************************************)
(* AIChat.handleSend                                                       *)
(***************************************************************************)
\* selectedDate of App: 12:00 UTC of day 1
ChatDate == MsPerDay + 12 * MsPerHour

\* handleSend up to its first await.  `tasks` is the prop of the render the
\* handler was made in: the collection as it is when the user sends.  The
\* user sends the next message when the reply to the last one is shown.
handleSend(message) ==
    /\ chat.st = "idle"
    /\ ops < MaxOps
    /\ ops' = ops + 1
    /\ chat' = [st |-> "thinking", message |-> message, tasks |-> tasks,
                id |-> NoId, said |-> chat.said]
    /\ toasts' = <<>>
    /\ sink' = {}
    /\ prevSink' = {}
    /\ displayed' = {}
    /\ UNCHANGED <<now, polled, tasks, db, fetch, inflight, nextId, notified,
                   tz, call>>

\* handleSend after the 700 ms: parseTaskFromNL on the captured collection;
\* with a draft, handleAddTask up to its await, else the reply is shown
ChatResolve ==
    /\ chat.st = "thinking"
    /\ \E result \in { parseTaskFromNL(chat.message, chat.tasks, ChatDate,
                                        nextId) } :
        IF result.success
        THEN /\ nextId <= MaxTasks
             /\ Len(inflight) < MaxInflight
             /\ nextId' = nextId + 1
             /\ chat' = [chat EXCEPT !.st = "saving", !.id = nextId]
             /\ LET row == Task(nextId, result.task.startTime,
                                result.task.endTime, result.task.completed,
                                FALSE, result.task.reminder,
                                result.task.reminderSent)
                IN  \/ /\ db' = db \cup {row}
                       /\ inflight' = Append(inflight,
                                             Reply("insert", nextId, row))
                       /\ toasts' = <<>>
                    \/ /\ UNCHANGED <<db, inflight>>
                       /\ toasts' = <<ErrorToast>>
        ELSE /\ chat' = [chat EXCEPT !.st = "idle", !.said = result.message]
             /\ toasts' = <<>>
             /\ UNCHANGED <<db, inflight, nextId>>
    /\ sink' = {}
    /\ prevSink' = {}
    /\ displayed' = {}
    /\ UNCHANGED <<now, polled, tasks, fetch, notified, ops, tz, call>>

\* handleSend after `await onAddTask(result.task)`: handleAddTask has
\* returned, after its setTasks or after its catch
ChatConfirm ==
    /\ chat.st = "saving"
    /\ \A k \in 1..Len(inflight) :
          ~(inflight[k].op = "insert" /\ inflight[k].id = chat.id)
    /\ toasts' = <<Toast("Task Added", "added", "success")>>
    /\ chat' = [chat EXCEPT !.st = "idle", !.said = "added"]
    /\ sink' = {}
    /\ prevSink' = {}
    /\ displayed' = {}
    /\ UNCHANGED <<now, polled, tasks, db, fetch, inflight, nextId, notified,
                   ops, tz, call>>

(***************************************************************************)
(* The application                                                         *)
(***************************************************************************)
NoCall == [op |-> "none"]

\* rows the table can hold when App mounts: written by earlier sessions,
\* which insert reminderSent = false and never update it
InitialDbs ==
    { {} } \cup
    { { Task(1, d.startTime, d.endTime, c, c, d.reminder, FALSE) } :
        d \in Drafts, c \in BOOLEAN }

Init ==
    /\ now = 0
    /\ polled = TRUE
    /\ tasks = <<>>
    /\ db \in InitialDbs
    /\ fetch = [st |-> "pending", ok |-> TRUE, rows |-> {}]
    /\ inflight = <<>>
    /\ nextId = IF db = {} THEN 1 ELSE 2
    /\ notified = [id \in TaskIds |-> 0]
    /\ sink = {}
    /\ prevSink = {}
    /\ displayed = {}
    /\ toasts = <<>>
    /\ chat = NoChat
    /\ ops = 0
    /\ tz = 0
    /\ call = NoCall

Next ==
    \/ Poll
    \/ Advance(MaxPolls)
    \/ FetchServer
    \/ FetchApply
    \/ \E d \in Drafts : SaveTask(d)
    \/ \E id \in TaskIds : ToggleComplete(id)
    \/ \E id \in TaskIds : DeleteTask(id)
    \/ \E k \in 1..MaxInflight : ApplyReply(k)

Spec == Init /\ [][Next]_vars

\* The application once fetchTasks has been answered and applied, right
\* after the mount: the collection holds the table's rows.
InitLoaded ==
    /\ now = 0
    /\ polled = TRUE
    /\ db \in InitialDbs
    /\ tasks \in OrderedByStart(db)
    /\ fetch = [st |-> "done", ok |-> TRUE, rows |-> {}]
    /\ inflight = <<>>
    /\ nextId = IF db = {} THEN 1 ELSE 2
    /\ notified = [id \in TaskIds |-> 0]
    /\ sink = {}
    /\ prevSink = {}
    /\ displayed = {}
    /\ toasts = <<>>
    /\ chat = NoChat
    /\ ops = 0
    /\ tz = 0
    /\ call = NoCall

NextLoaded ==
    \/ Poll
    \/ Advance(MaxPolls)
    \/ \E d \in Drafts : SaveTask(d)
    \/ \E id \in TaskIds : ToggleComplete(id)
    \/ \E id \in TaskIds : DeleteTask(id)
    \/ \E k \in 1..MaxInflight : ApplyReply(k)

SpecLoaded == InitLoaded /\ [][NextLoaded]_vars

\* The application over the 16 minutes before the start of a task that the
\* table held at the mount, with the timer running: every 30 s pass, and
\* every callback due runs.
LiveTask == Task(1, 960000, 1020000, FALSE, FALSE, TRUE, FALSE)

InitLive ==
    /\ InitLoaded
    /\ db = {LiveTask}

NextLive ==
    \/ Poll
    \/ Advance(LivePolls)
    \/ \E d \in Drafts : SaveTask(d)
    \/ \E id \in TaskIds : ToggleComplete(id)
    \/ \E id \in TaskIds : DeleteTask(id)
    \/ \E k \in 1..MaxInflight : ApplyReply(k)

SpecLive ==
    /\ InitLive
    /\ [][NextLive]_vars
    /\ WF_vars(Advance(LivePolls))
    /\ WF_vars(Poll)

\* The application with the AI chat and the Add Task form, on day 1.
\* What the user sends: "walk at 9", "walk at 9 for 2 hours", "walk at 2 PM"
\* and "walk".
ChatUtterances ==
    { <<"w", "a", "l", "k", " ", "a", "t", " ", "9">>,
      <<"w", "a", "l", "k", " ", "a", "t", " ", "9", " ", "f", "o", "r", " ",
        "2", " ", "h", "o", "u", "r", "s">>,
      <<"w", "a", "l", "k", " ", "a", "t", " ", "2", " ", "P", "M">>,
      <<"w", "a", "l", "k">> }

\* what the form holds when it is saved: 09:30-10:30 or 14:00-15:00
ChatDrafts ==
    { [startTime |-> MsPerDay + 9 * MsPerHour + 30 * MsPerMinute,
       endTime |-> MsPerDay + 10 * MsPerHour + 30 * MsPerMinute,
       reminder |-> TRUE],
      [startTime |-> MsPerDay + 14 * MsPerHour,
       endTime |-> MsPerDay + 15 * MsPerHour,
       reminder |-> TRUE] }

\* the table at the mount: empty, or a task 14:00-15:00
ChatDbs ==
    { {}, { Task(1, MsPerDay + 14 * MsPerHour, MsPerDay + 15 * MsPerHour,
                 FALSE, FALSE, TRUE, FALSE) } }

InitChat ==
    /\ now = 0
    /\ polled = TRUE
    /\ db \in ChatDbs
    /\ tasks \in OrderedByStart(db)
    /\ fetch = [st |-> "done", ok |-> TRUE, rows |-> {}]
    /\ inflight = <<>>
    /\ nextId = IF db = {} THEN 1 ELSE 2
    /\ notified = [id \in TaskIds |-> 0]
    /\ sink = {}
    /\ prevSink = {}
    /\ displayed = {}
    /\ ops = 0
    /\ tz = 0
    /\ call = NoCall
    /\ toasts = <<>>
    /\ chat = NoChat

NextChat ==
    \/ \E message \in ChatUtterances : handleSend(message)
    \/ ChatResolve
    \/ ChatConfirm
    \/ \E d \in ChatDrafts : SaveTask(d)
    \/ \E k \in 1..MaxInflight : ApplyReply(k)

SpecChat == InitChat /\ [][NextChat]_vars

(***************************************************************************)
(* Calls of the pure functions on collections drawn from bounded sets      *)
(***************************************************************************)
\* every variable the pure functions do not read, as after construction
Idle ==
    /\ now = 0
    /\ polled = TRUE
    /\ db = {}
    /\ fetch = [st |-> "done", ok |-> TRUE, rows |-> {}]
    /\ inflight = <<>>
    /\ nextId = 1
    /\ notified = [id \in TaskIds |-> 0]
    /\ sink = {}
    /\ prevSink = {}
    /\ displayed = {}
    /\ toasts = <<>>
    /\ chat = NoChat
    /\ ops = 0
    /\ call = NoCall

\* a pending task with the given id and interval
Plain(id, s, e) == Task(id, s, e, FALSE, FALSE, TRUE, FALSE)

\* sequences of at most n tasks with intervals from `intervals`; the id of
\* a task is its position
Collections(intervals, n) ==
    UNION { { [i \in 1..k |-> Plain(i, f[i][1], f[i][2])] :
                f \in [1..k -> intervals] } : k \in 0..n }

\* [s, e] over the instants 0..MaxInstant; s = e is the interval of a task
\* of duration 0
ConflictIntervals ==
    { <<s, e>> \in (0..MaxInstant) \X (0..MaxInstant) : s <= e }

InitConflict ==
    /\ Idle
    /\ tz = 0
    /\ tasks \in Collections(ConflictIntervals, ConflictLen)

CallCheckConflict ==
    \E iv \in ConflictIntervals, ex \in 0..ConflictLen :
        /\ call' = [op |-> "checkConflict", newStart |-> iv[1],
                    newEnd |-> iv[2], excludeId |-> ex,
                    result |-> checkConflict(tasks, iv[1], iv[2], ex)]
        /\ tasks' = checkConflictArrays(tasks, ex).tasks
        /\ UNCHANGED <<now, polled, db, fetch, inflight, nextId,
                       notified, sink, prevSink, displayed,
                       ops, tz,
                       toasts, chat>>

SpecConflict == InitConflict /\ [][CallCheckConflict]_vars

\* local time zones: UTC and UTC+2
TzOffsets == {0, 2 * MsPerHour}

\* the instants tasks start and end at: <<day, hour>> in UTC
SlotInstants ==
    { d[1] * MsPerDay + d[2] * MsPerHour :
        d \in { <<0, 7>>, <<0, 9>>, <<0, 10>>, <<0, 12>>, <<0, 23>>,
                <<1, 1>>, <<1, 9>> } }

\* well-formed intervals: start < end
SlotIntervals == { <<s, e>> \in SlotInstants \X SlotInstants : s < e }

\* day windows <<dayStart, dayEnd>>, the default one first
DayWindows == { <<DefaultDayStart, DefaultDayEnd>>, <<9, 12>> }

InitSlots ==
    /\ Idle
    /\ tz \in TzOffsets
    /\ tasks \in Collections(SlotIntervals, SlotsLen)

CallGetFreeSlots ==
    \E dateStr \in 0..1, w \in DayWindows :
        /\ call' = [op |-> "getFreeSlots", dateStr |-> dateStr,
                    dayStart |-> w[1], dayEnd |-> w[2],
                    result |-> getFreeSlots(tasks, dateStr, w[1], w[2])]
        /\ tasks' = getFreeSlotsArrays(tasks, dateStr).tasks
        /\ UNCHANGED <<now, polled, db, fetch, inflight, nextId,
                       notified, sink, prevSink, displayed,
                       ops, tz,
                       toasts, chat>>

SpecSlots == InitSlots /\ [][CallGetFreeSlots]_vars

\* local time zones of the example of two tasks: UTC and UTC+10
ExampleTz == {0, 10 * MsPerHour}

\* the calendar day of the example, as a day number
ExampleDay == 1

\* new Date(year, month, day, hour) in the time zone of offset z
LocalInstant(day, hour, z) == day * MsPerDay + hour * MsPerHour - z

\* the collection of two tasks 09:00-10:00 and 11:00-12:00 on ExampleDay,
\* in either order, alone or with a task of the day before or the day after
ExampleCollections(z) ==
    LET a == <<LocalInstant(ExampleDay, 9, z), LocalInstant(ExampleDay, 10, z)>>
        b == <<LocalInstant(ExampleDay, 11, z), LocalInstant(ExampleDay, 12, z)>>
        others == { <<LocalInstant(d, h, z), LocalInstant(d, h + 1, z)>> :
                        d \in {ExampleDay - 1, ExampleDay + 1},
                        h \in {7, 9, 13, 21} }
        seqs == { <<a, b>>, <<b, a>> } \cup
                { <<a, b, o>> : o \in others } \cup
                { <<o, b, a>> : o \in others }
    IN  { [i \in 1..Len(q) |-> Plain(i, q[i][1], q[i][2])] : q \in seqs }

InitExample ==
    /\ Idle
    /\ tz \in ExampleTz
    /\ tasks \in ExampleCollections(tz)

CallExample ==
    \E dateStr \in (ExampleDay - 1)..(ExampleDay + 1), w \in DayWindows :
        /\ call' = [op |-> "getFreeSlots", dateStr |-> dateStr,
                    dayStart |-> w[1], dayEnd |-> w[2],
                    result |-> getFreeSlots(tasks, dateStr, w[1], w[2])]
        /\ tasks' = getFreeSlotsArrays(tasks, dateStr).tasks
        /\ UNCHANGED <<now, polled, db, fetch, inflight, nextId,
                       notified, sink, prevSink, displayed,
                       ops, tz,
                       toasts, chat>>

SpecExample == InitExample /\ [][CallExample]_vars

\* selectedDate: the instant App was mounted at, 12:00 or 23:00 UTC of day 1
ParseDates == { MsPerDay + 12 * MsPerHour, MsPerDay + 23 * MsPerHour }

\* the intervals of the tasks in the collection: <<day, hour, hour>> in
\* UTC; the last one begins at 22:00 and ends at 10:00 of the day after
ParseIntervals ==
    { <<d[1] * MsPerDay + d[2] * MsPerHour, d[1] * MsPerDay + d[3] * MsPerHour>> :
        d \in { <<1, 9, 10>>, <<2, 12, 13>>, <<2, 13, 14>>, <<2, 14, 15>>,
                <<2, 8, 22>>, <<1, 22, 34>> } }

\* a day with four tasks, and five gaps between them
BusyDay ==
    [i \in 1..4 |-> Plain(i, 2 * MsPerDay + (7 + 2 * i) * MsPerHour,
                             2 * MsPerDay + (8 + 2 * i) * MsPerHour)]

ParseLen == 1           \* tasks in a collection passed to parseTaskFromNL

\* the tasks of BusyDay as a user makes them who plans the end of the day
\* first: App appends a task at the end of the collection, whenever it starts
BusyDayUnordered == [i \in 1..4 |-> BusyDay[5 - i]]

InitParse ==
    /\ Idle
    /\ tz \in TzOffsets
    /\ tasks \in Collections(ParseIntervals, ParseLen)
                    \cup {BusyDay, BusyDayUnordered}

\* one call is made in a behaviour: the function keeps nothing between calls
CallParse ==
    \E message \in Utterances, selectedDate \in ParseDates :
        /\ call = NoCall
        /\ \E result \in { parseTaskFromNL(message, tasks, selectedDate,
                                            Len(tasks) + 1) } :
            /\ call' = [op |-> "parseTaskFromNL", message |-> message,
                        selectedDate |-> selectedDate,
                        selectedDateAfter |->
                            parseTaskFromNLDates(message,
                                                 selectedDate).selectedDate,
                        result |-> result]
            /\ tasks' = parseTaskFromNLTasks(message, tasks, selectedDate,
                                             result.conflict)
        /\ UNCHANGED <<now, polled, db, fetch, inflight, nextId,
                       notified, sink, prevSink, displayed, ops, tz,
                       toasts, chat>>

SpecParse == InitParse /\ [][CallParse]_vars

\* A time of day as the user types it: an hour, minutes or none, a marker
\* or none in either case, a space before the marker or none
TypedHours == 0..13
TypedMinutes == {0, 5, 30, 59}
TypedMarkers == { <<>>, <<"a", "m">>, <<"p", "m">>, <<"A", "M">>, <<"P", "M">> }

TimeInputs ==
    [hour : TypedHours, hasMin : BOOLEAN, min : TypedMinutes,
     marker : TypedMarkers, space : BOOLEAN]

\* n in decimal, and n in two digits
Decimal(n) ==
    IF n < 10 THEN <<Digits[n + 1]>>
    ELSE <<Digits[(n \div 10) + 1], Digits[(n % 10) + 1]>>

TwoDigits(n) == <<Digits[(n \div 10) + 1], Digits[(n % 10) + 1]>>

\* the message "at H", "at H:MM", "at H am", "at H:MMpm", ...
TimeText(in) ==
    <<"a", "t", " ">> \o Decimal(in.hour)
        \o (IF in.hasMin THEN <<":">> \o TwoDigits(in.min) ELSE <<>>)
        \o (IF in.space THEN <<" ">> ELSE <<>>)
        \o in.marker

InitTimes ==
    /\ Idle
    /\ tz = 0
    /\ tasks = <<>>

\* the time pattern loop of parseTaskFromNL on a typed time of day
CallTimes ==
    \E in \in TimeInputs :
        /\ in.hasMin \/ in.min = 0
        /\ call' = [op |-> "times", hour |-> in.hour, hasMin |-> in.hasMin,
                    min |-> in.min, marker |-> toLowerCase(in.marker),
                    message |-> TimeText(in),
                    result |-> times(toLowerCase(TimeText(in)), 1)]
        /\ UNCHANGED <<now, polled, tasks, db, fetch, inflight, nextId,
                       notified, sink, prevSink, displayed, ops, tz,
                       toasts, chat>>

SpecTimes == InitTimes /\ [][CallTimes]_vars

(***************************************************************************)
(* Interval Conflict Detector                                              *)
(***************************************************************************)
\* C7: checkConflict(tasks, start, end, excludeId) is true iff some task t
\* with t.id # excludeId has start < t.endTime and end > t.startTime; a
\* candidate that only touches a task at an endpoint does not conflict
\* with it, and the interval of a task does not conflict with the task
\* itself when its id is excluded.
C7_ConflictIff ==
    call.op = "checkConflict" =>
        LET others == { t \in Range(tasks) : t.id # call.excludeId }
            hits == { t \in others : call.newStart < t.endTime
                                      /\ call.newEnd > t.startTime }
        IN  /\ call.result = (hits # {})
            /\ \A t \in hits : call.newEnd # t.startTime
                                /\ call.newStart # t.endTime
            /\ \A t \in Range(tasks) :
                    (/\ t.id = call.excludeId
                     /\ call.newStart = t.startTime
                     /\ call.newEnd = t.endTime
                     /\ call.result)
                        => \E u \in hits : u # t

\* a candidate touching both tasks of the collection at an endpoint was
\* found free of conflict
C7_Witness ==
    /\ call.op = "checkConflict"
    /\ Len(tasks) = 2
    /\ call.excludeId = NoId
    /\ call.newStart < call.newEnd
    /\ tasks[1].startTime < tasks[1].endTime
    /\ tasks[1].endTime = call.newStart
    /\ tasks[2].startTime = call.newEnd
    /\ tasks[2].startTime < tasks[2].endTime
    /\ call.result = FALSE

\* C8: checkConflict on the single-task collection {A} with candidate B
\* gives what checkConflict on {B} with candidate A gives.
C8_ConflictSymmetric ==
    (call.op = "checkConflict" /\ Len(tasks) = 1 /\ call.excludeId = NoId) =>
        call.result =
            checkConflict(<<Plain(1, call.newStart, call.newEnd)>>,
                          tasks[1].startTime, tasks[1].endTime, NoId)

\* two properly overlapping intervals were found in conflict
C8_Witness ==
    /\ call.op = "checkConflict"
    /\ Len(tasks) = 1
    /\ call.excludeId = NoId
    /\ tasks[1].startTime < call.newStart
    /\ call.newStart < tasks[1].endTime
    /\ tasks[1].endTime < call.newEnd
    /\ call.result = TRUE

(***************************************************************************)
(* Free-Slot Calculator                                                    *)
(***************************************************************************)
\* the calendar day an instant falls on, and its minute from the beginning
\* of day `day` (1440 and more for an instant of a later day)
DayOf(t) == (t + tz) \div MsPerDay
MinuteFrom(day, t) == ((t + tz) - day * MsPerDay) \div MsPerMinute

\* the tasks of the collection whose start falls on day `day`
TasksOn(day) == { t \in Range(tasks) : DayOf(t.startTime) = day }

InSomeSlot(m) ==
    \E k \in 1..Len(call.result) :
        call.result[k].start <= m /\ m < call.result[k].end

InSomeTask(m) ==
    \E t \in TasksOn(call.dateStr) :
        /\ MinuteFrom(call.dateStr, t.startTime) <= m
        /\ m < MinuteFrom(call.dateStr, t.endTime)

InWindow(m) == call.dayStart * 60 <= m /\ m < call.dayEnd * 60

\* C9: the slots getFreeSlots returns for a day together with the day's
\* task intervals cut to the window [ws, we) are exactly the window; every
\* slot lies inside the window.
C9_SlotsAndTasksCoverWindow ==
    call.op = "getFreeSlots" =>
        \A m \in 0..(2 * 1440 - 1) :
            (InSomeSlot(m) \/ (InSomeTask(m) /\ InWindow(m))) <=> InWindow(m)

\* C10: no slot getFreeSlots returns for a day overlaps the interval of a
\* task whose start falls on that day.
C10_SlotsAvoidTasks ==
    call.op = "getFreeSlots" =>
        \A k \in 1..Len(call.result), t \in TasksOn(call.dateStr) :
            ~ (/\ call.result[k].start < MinuteFrom(call.dateStr, t.endTime)
               /\ call.result[k].end > MinuteFrom(call.dateStr, t.startTime))

\* C11: the sequence getFreeSlots returns is strictly ascending by start,
\* its slots are pairwise disjoint and every slot has start < end; for a
\* day with no tasks the result is the single slot spanning the window.
C11_SlotsAscendingDisjoint ==
    call.op = "getFreeSlots" =>
        LET r == call.result
        IN  /\ \A k \in 1..Len(r) : r[k].start < r[k].end
            /\ \A j, k \in 1..Len(r) :
                    j < k => /\ r[j].start < r[k].start
                             /\ ~(r[j].start < r[k].end /\ r[k].start < r[j].end)
            /\ TasksOn(call.dateStr) = {} =>
                    r = <<[start |-> call.dayStart * 60,
                           end |-> call.dayEnd * 60]>>

\* C12: with the default window 480-1320 and exactly two tasks on the day,
\* 09:00-10:00 and 11:00-12:00, getFreeSlots returns exactly the slots
\* [480,540), [600,660), [720,1320), in that order.
C12_ExampleSlots ==
    (/\ call.op = "getFreeSlots"
     /\ call.dateStr = ExampleDay
     /\ call.dayStart = DefaultDayStart
     /\ call.dayEnd = DefaultDayEnd
     /\ { <<MinuteFrom(ExampleDay, t.startTime),
            MinuteFrom(ExampleDay, t.endTime)>> : t \in TasksOn(ExampleDay) }
            = { <<540, 600>>, <<660, 720>> })
        => call.result = << [start |-> 480, end |-> 540],
                            [start |-> 600, end |-> 660],
                            [start |-> 720, end |-> 1320] >>

(***************************************************************************)
(* Reminder Scheduler                                                      *)
(***************************************************************************)
FifteenMinutes == 900000

\* the claim's condition for task t at a poll at instant n
Eligible(t, n) ==
    /\ t.reminder = TRUE
    /\ t.completed = FALSE
    /\ t.reminderSent = FALSE
    /\ 0 < t.startTime - n
    /\ t.startTime - n <= FifteenMinutes

\* C1: over any interleaving of polls with load, add, delete and
\* toggle-complete, the notification of a task is delivered at most once
\* during the task's lifetime.
C1_AtMostOnce == \A id \in TaskIds : notified[id] <= 1

\* C2: reminderSent is monotone: a task that had reminderSent = true and
\* still exists keeps it; no operation other than the poll writes it.
C2_ReminderSentMonotone ==
    [][ \A i \in 1..Len(tasks), j \in 1..Len(tasks') :
          (tasks[i].id = tasks'[j].id /\ tasks[i].reminderSent)
              => tasks'[j].reminderSent ]_vars

\* C3: a poll at instant now notifies task t and sets t.reminderSent iff
\* t.reminder, not t.completed, not t.reminderSent and
\* 0 < t.startTime - now <= 15 minutes; every eligible task fires in the
\* same poll.
C3_PollFiresIff ==
    [][ Poll =>
          /\ Len(tasks') = Len(tasks)
          /\ \A i \in 1..Len(tasks) :
                (i \in sink' /\ tasks'[i].reminderSent /\ ~tasks[i].reminderSent)
                    <=> Eligible(tasks[i], now) ]_vars

\* a poll has just notified two tasks at once, one of them starting in
\* exactly 15 minutes
C3_Witness ==
    /\ polled
    /\ Cardinality(sink) = 2
    /\ \E i \in sink : tasks[i].startTime - now = FifteenMinutes
    /\ \A i \in sink : tasks[i].reminderSent

\* the task of C4 is in the collection, pending, with its reminder enabled
LiveTaskHeld ==
    \E i \in 1..Len(tasks) :
        /\ tasks[i].id = LiveTask.id
        /\ tasks[i].reminder
        /\ ~tasks[i].completed

\* C4: with the poll running every 30 s, a task that stays in the
\* collection with reminder = true and completed = false from more than 15
\* minutes before its start until its start is notified at some poll; a
\* poll notifies a task only when its start is at most 15 minutes away and
\* strictly ahead.
C4_NotifiedInWindow ==
    /\ <>( \/ (now < LiveTask.startTime /\ ~LiveTaskHeld)
           \/ notified[LiveTask.id] >= 1 )
    /\ [][ Poll =>
            \A i \in sink' :
                /\ tasks[i].startTime - now <= FifteenMinutes
                /\ tasks[i].startTime - now > 0 ]_vars

\* the task sat untouched in the collection from 16 minutes before its
\* start until its start, and was notified
C4_Witness ==
    /\ now >= LiveTask.startTime
    /\ ops = 0
    /\ LiveTaskHeld
    /\ notified[LiveTask.id] = 1

\* C5: a poll that follows a poll with no other operation in between
\* notifies no task the earlier poll notified and returns those tasks as the
\* earlier poll returned them.
C5_PollIdempotent ==
    [][ Poll =>
          /\ sink' \cap sink = {}
          /\ \A i \in sink : tasks'[i] = tasks[i] ]_vars

\* a second poll has run right after one that notified a task whose start
\* is still at most 15 minutes ahead
C5_Witness ==
    /\ polled
    /\ \E i \in prevSink :
          /\ i \notin sink
          /\ 0 < tasks[i].startTime - now
          /\ tasks[i].startTime - now <= FifteenMinutes

\* C6: a poll adds, removes and reorders nothing; a task that is not
\* notified is returned unchanged in every field, and a notified task
\* changes in reminderSent only.
C6_PollFrame ==
    [][ Poll =>
          /\ Len(tasks') = Len(tasks)
          /\ \A i \in 1..Len(tasks) :
                IF Eligible(tasks[i], now)
                THEN tasks'[i] = [tasks[i] EXCEPT !.reminderSent = TRUE]
                ELSE tasks'[i] = tasks[i] ]_vars

\* a poll has just run over a completed task, a task without reminder or a
\* task outside the window, next to one it notified
C6_Witness ==
    /\ polled
    /\ sink # {}
    /\ \E i \in 1..Len(tasks) :
          /\ i \notin sink
          /\ \/ tasks[i].completed
             \/ ~tasks[i].reminder
             \/ tasks[i].startTime - now > FifteenMinutes

(***************************************************************************)
(* Intent Resolver                                                         *)
(***************************************************************************)
ParseCalled == call.op = "parseTaskFromNL"

\* the message holds a digit: the time pattern finds a match
HasDigit(message) == \E i \in 1..Len(message) : IsDigit(message[i])

\* the half-open intervals [s, e) and [t.startTime, t.endTime) share an
\* instant
Overlaps(s, e, t) == Max(s, t.startTime) < Min(e, t.endTime)

\* the interval the call resolved its message to
ResolvedStart ==
    LET x == Extracted[call.message]
    IN  setHours(call.selectedDate + x.shift * MsPerDay,
                 x.times[1].hour, x.times[1].min)

ResolvedEnd ==
    ResolvedStart + Extracted[call.message].durationMins * MsPerMinute

\* C13: parseTaskFromNL returns a success draft iff a time was found and
\* checkConflict reports no conflict for the resolved [start, end) against
\* the collection passed in; no success draft overlaps (half-open) a task
\* of the collection, and every conflict gives a failure without a draft.
C13_SuccessIffTimeAndFree ==
    ParseCalled =>
        LET r == call.result
            free == ~checkConflict(tasks, ResolvedStart, ResolvedEnd, NoId)
        IN  /\ r.success <=> (HasDigit(call.message) /\ free)
            /\ r.success =>
                  /\ r.task # NoDraft
                  /\ r.task.startTime = ResolvedStart
                  /\ r.task.endTime = ResolvedEnd
                  /\ \A t \in Range(tasks) :
                        ~Overlaps(r.task.startTime, r.task.endTime, t)
            /\ (HasDigit(call.message) /\ ~free) =>
                  /\ ~r.success
                  /\ r.conflict
                  /\ r.task = NoDraft

\* a draft that begins where a task of the collection ends was returned
C13_Witness ==
    /\ ParseCalled
    /\ call.result.success
    /\ call.result.task.startTime < call.result.task.endTime
    /\ \E t \in Range(tasks) : t.endTime = call.result.task.startTime

\* the utterances without a time phrase, and those of them whose only
\* number is the N of a duration phrase
NoTimeUtterances ==
    { Join(<<v, t, d, <<>>, n>>) :
        v \in VerbPhrases, t \in TitlePhrases, d \in DatePhrases,
        n \in DurationPhrases }

DurationOnlyUtterances ==
    { Join(<<v, t, d, <<>>, n>>) :
        v \in VerbPhrases, t \in TitlePhrases, d \in DatePhrases,
        n \in DurationPhrases \ {<<>>} }

\* C14: for an utterance without a time-of-day mention parseTaskFromNL
\* returns a failure with the clarification message, no draft and no
\* alternative slots, whatever the collection and whatever date or duration
\* words the utterance holds.
C14_NoTimeFails ==
    (ParseCalled /\ call.message \in NoTimeUtterances) =>
        /\ call.result.success = FALSE
        /\ call.result.conflict = FALSE
        /\ call.result.message = "no-time"
        /\ call.result.task = NoDraft
        /\ call.result.suggestions = <<>>

\* C20: an utterance whose only number is the N of a duration phrase and
\* that names no time of day gets the failure NoTimeDetected and no draft;
\* the number of the duration is not used as the start hour.
C20_DurationIsNoTime ==
    (ParseCalled /\ call.message \in DurationOnlyUtterances) =>
        /\ ~call.result.success
        /\ call.result.message = "no-time"
        /\ call.result.task = NoDraft

\* the calendar day the call resolved its message to, and the duration
TargetDay == DayOf(call.selectedDate) + Extracted[call.message].shift

RequestedMins == Extracted[call.message].durationMins

\* minute m of TargetDay lies in a task; the minutes [a, b) meet a task
BusyAt(m) ==
    \E t \in Range(tasks) :
        /\ MinuteFrom(TargetDay, t.startTime) <= m
        /\ m < MinuteFrom(TargetDay, t.endTime)

BusyIn(a, b) ==
    \E t \in Range(tasks) :
        /\ MinuteFrom(TargetDay, t.startTime) < b
        /\ MinuteFrom(TargetDay, t.endTime) > a

\* the free slots of TargetDay: the maximal task-free stretches [a, b) of
\* the default window
WindowStart == DefaultDayStart * 60
WindowEnd == DefaultDayEnd * 60

TargetFreeSlots ==
    LET clip(m) == Max(WindowStart, Min(WindowEnd, m))
        points == {WindowStart, WindowEnd} \cup
                  { clip(MinuteFrom(TargetDay, t.startTime)) : t \in Range(tasks) } \cup
                  { clip(MinuteFrom(TargetDay, t.endTime)) : t \in Range(tasks) }
    IN  { p \in points \X points :
            /\ p[1] < p[2]
            /\ ~BusyIn(p[1], p[2])
            /\ p[1] = WindowStart \/ BusyAt(p[1] - 1)
            /\ p[2] = WindowEnd \/ BusyAt(p[2]) }

\* a time "HH:MM" of a suggestion, in minutes
InMinutes(hm) == hm.h * 60 + hm.m

\* C15: on the conflict path parseTaskFromNL offers 0 to 3 alternatives:
\* the chronologically first free slots of the target day that are at
\* least as long as the requested duration, each cut to
\* [slot.start, slot.start + duration); with no slot long enough the
\* result is a failure with an empty list.
C15_FirstThreeFittingSlots ==
    (ParseCalled /\ call.result.conflict) =>
        LET sg == call.result.suggestions
            fit == { p \in TargetFreeSlots : p[2] - p[1] >= RequestedMins }
            first == { p \in fit :
                         Cardinality({ q \in fit : q[1] < p[1] }) < 3 }
        IN  /\ ~call.result.success
            /\ Len(sg) <= 3
            /\ Len(sg) = Cardinality(first)
            /\ \A j, k \in 1..Len(sg) :
                    j < k => InMinutes(sg[j].start) < InMinutes(sg[k].start)
            /\ \A k \in 1..Len(sg) :
                    /\ \E p \in first : p[1] = InMinutes(sg[k].start)
                    /\ InMinutes(sg[k].end)
                          = InMinutes(sg[k].start) + RequestedMins

\* "Schedule team sync tomorrow at 2 PM for 1 hour"
ExampleUtterance ==
    <<"S", "c", "h", "e", "d", "u", "l", "e", " ", "t", "e", "a", "m",
      " ", "s", "y", "n", "c", " ", "t", "o", "m", "o", "r", "r", "o",
      "w", " ", "a", "t", " ", "2", " ", "P", "M", " ", "f", "o", "r",
      " ", "1", " ", "h", "o", "u", "r">>

ExampleTitle == <<"T", "e", "a", "m", " ", "s", "y", "n", "c">>

\* C16: for "Schedule team sync tomorrow at 2 PM for 1 hour", an empty
\* collection and reference date D, parseTaskFromNL returns a success draft
\* with title "Team sync", category "work", start = D+1 at 14:00 and
\* end = D+1 at 15:00.
C16_ExampleDraft ==
    (ParseCalled /\ call.message = ExampleUtterance /\ tasks = <<>>) =>
        LET r == call.result
            D == DayOf(call.selectedDate)
        IN  /\ r.success
            /\ r.task.title = ExampleTitle
            /\ r.task.category = "work"
            /\ r.task.startTime = LocalInstant(D + 1, 14, tz)
            /\ r.task.endTime = LocalInstant(D + 1, 15, tz)

\* the example was resolved against the empty collection, late in the
\* evening of a time zone ahead of UTC
C16_Witness ==
    /\ ParseCalled
    /\ call.message = ExampleUtterance
    /\ tasks = <<>>
    /\ tz > 0
    /\ DayOf(call.selectedDate) # ISODate(call.selectedDate)
    /\ call.result.success

\* the category of the claim: work before health before personal, the
\* first keyword set that matches the title wins
FirstMatchCategory(title) ==
    IF TestAny(title, WorkWords) THEN "work"
    ELSE IF TestAny(title, HealthWords) THEN "health"
    ELSE IF TestAny(title, PersonalWords) THEN "personal"
    ELSE "general"

\* C17: the category is inferred in the fixed priority work, health,
\* personal, the first matching keyword set winning: a title with a work
\* keyword is "work" even if it also holds a health or personal keyword, a
\* title with health and personal keywords but no work keyword is
\* "health", and a title matching none is "general".
C17_CategoryPriority ==
    (ParseCalled /\ call.result.success) =>
        call.result.task.category = FirstMatchCategory(call.result.task.title)

\* C18: every draft parseTaskFromNL returns has startTime < endTime, for
\* every utterance with a detected time and every duration phrase it
\* accepts (any N >= 0 of hours or minutes).
C18_DraftStartBeforeEnd ==
    (ParseCalled /\ call.result.success) =>
        call.result.task.startTime < call.result.task.endTime

\* the shift and the duration as the claim words them
ClaimShift(lower) ==
    IF includes(lower, Tomorrow) THEN 1
    ELSE IF includes(lower, NextWeek) THEN 7
    ELSE 0

\* C19: for an utterance with a time match the resolved start is the
\* instant on calendar day (reference date + shift) at the hour:minute of
\* the leftmost time match, shift being 1 for "tomorrow", 7 for "next week"
\* and 0 otherwise, and end = start + duration; later time matches have no
\* influence, and start lies on that calendar day for every matched hour.
C19_StartOnShiftedDay ==
    (ParseCalled /\ call.result.success) =>
        LET x == Extracted[call.message]
            day == DayOf(call.selectedDate)
                     + ClaimShift(toLowerCase(call.message))
            first == x.times[1]
            start == call.result.task.startTime
        IN  /\ start = LocalInstant(day, 0, tz) + first.hour * MsPerHour
                                               + first.min * MsPerMinute
            /\ call.result.task.endTime = start + x.durationMins * MsPerMinute
            /\ DayOf(start) = day

(***************************************************************************)
(* Completion state                                                        *)
(***************************************************************************)
\* C21: in every reachable state, after any sequence of saves, toggles and
\* interval callbacks, every task of the collection has completedAt set
\* if and only if completed is true.
C21_CompletedAtIffCompleted ==
    \A i \in 1..Len(tasks) : tasks[i].completedAt <=> tasks[i].completed

\* Two toggles of one task were issued before the reply of the first was
\* applied: the first reply has made the task completed, the second, which
\* carries the same value, is still awaited.
C21_Witness ==
    /\ ops = 2
    /\ Len(inflight) = 1
    /\ inflight[1].op = "update"
    /\ inflight[1].data.completed
    /\ \E i \in 1..Len(tasks) :
        /\ tasks[i].id = inflight[1].id
        /\ tasks[i].completed
        /\ tasks[i].completedAt

ClaimHour(h, marker) ==
    IF marker = <<"p", "m">> THEN (IF h = 12 THEN 12 ELSE h + 12)
    ELSE IF marker = <<"a", "m">> THEN (IF h = 12 THEN 0 ELSE h)
    ELSE h

\* C24: for a matched hour h in 1..12 and minute m, marker pm gives hour
\* h + 12 unless h = 12, marker am gives hour 0 when h = 12 and h otherwise,
\* no marker leaves h as it is; the minutes are 0 when absent; the
\* normalised hour is in 0..23.
C24_TimeOfDayNormalised ==
    (call.op = "times" /\ call.hour \in 1..12) =>
        /\ Len(call.result) = 1
        /\ call.result[1].hour = ClaimHour(call.hour, call.marker)
        /\ call.result[1].min = (IF call.hasMin THEN call.min ELSE 0)
        /\ call.result[1].hour \in 0..23

\* "at 12:30 PM" has been matched: 12 pm stays 12
C24_Witness ==
    /\ call.op = "times"
    /\ call.hour = 12
    /\ call.hasMin
    /\ call.min = 30
    /\ call.marker = <<"p", "m">>
    /\ call.result = <<[hour |-> 12, min |-> 30]>>

(***************************************************************************)
(* The alternatives of the conflict path                                   *)
(***************************************************************************)
\* the instant at which the k-th suggested interval begins: its "HH:MM" on
\* the calendar day the message was resolved to
SuggestedStart(k) ==
    TargetDay * MsPerDay - tz
        + InMinutes(call.result.suggestions[k].start) * MsPerMinute

\* C25: every alternative [s, s + duration) suggested on the conflict path
\* lies inside the window of the target day and is free of conflicts:
\* checkConflict on the same collection is false for it, also when a task
\* of the collection starts on an earlier day and extends into the target
\* day.
C25_SuggestionsConflictFree ==
    (ParseCalled /\ call.result.conflict) =>
        \A k \in 1..Len(call.result.suggestions) :
            LET from == InMinutes(call.result.suggestions[k].start)
                s == SuggestedStart(k)
                e == s + RequestedMins * MsPerMinute
            IN  /\ WindowStart <= from
                /\ from + RequestedMins <= WindowEnd
                /\ ~checkConflict(tasks, s, e, NoId)

(***************************************************************************)
(* The AI chat and the task collection                                     *)
(***************************************************************************)
\* a step appends the draft the AI chat resolved
ChatDraftAppended ==
    /\ chat.st = "saving"
    /\ Len(tasks') = Len(tasks) + 1
    /\ tasks'[Len(tasks')].id = chat.id

\* C26: under any interleaving of sends of the AI chat and other adds, a
\* draft appended through the AI chat overlaps no task that is in the
\* collection at the moment it is appended.
C26_ChatDraftOverlapsNothing ==
    [][ ChatDraftAppended =>
          \A t \in Range(tasks) :
              ~Overlaps(tasks'[Len(tasks')].startTime,
                        tasks'[Len(tasks')].endTime, t) ]_vars

\* C27: the AI chat shows its success toast and its confirmation only when
\* the draft was appended to the collection; when persisting the draft
\* fails, no success confirmation is shown for it.
C27_ConfirmedOnlyIfAppended ==
    [][ (chat.st = "saving" /\ chat'.st = "idle") =>
          chat.id \in Ids(tasks') ]_vars

(***************************************************************************)
(* Failed and successful persistence calls                                 *)
(***************************************************************************)
\* a step is a save, a toggle or a delete whose persistence call returned
\* an error: the user has made an operation and no reply is awaited for it
CallFailed ==
    /\ ops' = ops + 1
    /\ chat' = chat
    /\ inflight' = inflight

\* a step applies the k-th awaited reply
Applied(k) ==
    /\ k \in 1..Len(inflight)
    /\ Len(inflight') = Len(inflight) - 1
    /\ inflight' = RemoveAt(inflight, k)

\* s, without its tasks of the given id, is r: the others are kept in
\* their order
WithoutId(s, id, r) ==
    LET kept == { i \in 1..Len(s) : s[i].id # id }
    IN  /\ Len(r) = Cardinality(kept)
        /\ \A i \in kept : r[Cardinality({ j \in kept : j <= i })] = s[i]

\* C28: when the persistence call of an add, a delete or a toggle-complete
\* returns an error, the collection is left as it was before the operation
\* and only an error toast is raised; on success a delete removes exactly
\* the tasks of the given id and an add appends exactly one task.
C28_FailureLeavesCollection ==
    [][ /\ CallFailed => (tasks' = tasks /\ toasts' = <<ErrorToast>>)
        /\ \A k \in 1..Len(inflight) :
              Applied(k) =>
                /\ inflight[k].op = "delete" =>
                      WithoutId(tasks, inflight[k].id, tasks')
                /\ inflight[k].op = "insert" =>
                      /\ Len(tasks') = Len(tasks) + 1
                      /\ SubSeq(tasks', 1, Len(tasks)) = tasks
                      /\ tasks'[Len(tasks')] = inflight[k].data ]_vars

\* the first operation on the loaded collection has failed: the error toast
\* is up, nothing is awaited and the collection still holds the table's rows
C28_Witness ==
    /\ fetch.st = "done"
    /\ fetch.ok
    /\ ops = 1
    /\ inflight = <<>>
    /\ toasts = <<ErrorToast>>
    /\ tasks # <<>>
    /\ Range(tasks) = db

(***************************************************************************)
(* Toggles in flight                                                       *)
(***************************************************************************)
\* C29: each successful toggle-complete flips the completed flag of its
\* task relative to the value the task has in the collection when the
\* result is applied, so that two successful toggles of one task, in any
\* interleaving of their persistence calls, leave completed as it was.
C29_ToggleFlipsAtApply ==
    [][ \A k \in 1..Len(inflight) :
          (Applied(k) /\ inflight[k].op = "update") =>
              \A i \in 1..Len(tasks) :
                  tasks[i].id = inflight[k].id =>
                      tasks'[i].completed = ~tasks[i].completed ]_vars

====
